---- MODULE Spec2Model ----
(***************************************************************************)
(* Model of src/partial-map-with-default/index.ts.                         *)
(*                                                                         *)
(* The module defines two partial registries keyed by AnimalName           *)
(* (animalLists, animalSoundPlayers), one complete registry                *)
(* (idealCompleteAnimalLists), a default handler, and two getters that     *)
(* read a registry entry and fall back to a default with `||`.             *)
(*                                                                         *)
(* JavaScript objects (animals, arrays, functions) live in a heap and are  *)
(* referred to by address, so that "the same object" and "an equal copy"   *)
(* are different things in the model, as they are in the program.          *)
(***************************************************************************)
EXTENDS Integers, Sequences, FiniteSets

\* ---------------------------------------------------------------- bounds
\* Largest heap the model explores (caps the number of `[]` literals that
\* the getters may evaluate).
MaxHeap == 14
\* Longest list a registry entry holds in the generalised initial states.
MaxListLen == 1

\* ---------------------------------------------------------------- values
\* The value `undefined`; heap addresses are 1..Len(heap).
Undefined == 0

\* keyof AnimalRecord
AnimalName == {"Cat", "Fish"}

\* The strings used as `meow` (the literal of the source and the one of the
\* spec's scenario B).
Meows == {"Did you call me?", "hi"}

\* interface Cat / interface Fish, as plain values
Cat(meow) == [kind |-> "animal", type |-> "cat", meow |-> meow]
Fish == [kind |-> "animal", type |-> "fish"]

\* AnimalRecord[N]: the animals of the shape associated with tag N
AnimalRecord(N) == IF N = "Cat" THEN {Cat(m) : m \in Meows} ELSE {Fish}

\* Heap objects for an array and for the two function literals
ArrayObject(elems) == [kind |-> "array", elems |-> elems]
FunctionObject(code) == [kind |-> "function", code |-> code]

VARIABLES
    heap,                      \* Seq of heap objects; address = index
    animalLists,               \* [AnimalName -> address or Undefined]
    idealCompleteAnimalLists,  \* [AnimalName -> address]
    animalSoundPlayers,        \* [AnimalName -> address or Undefined]
    defaultAnimalSoundPlayer,  \* address of the default handler
    ret,                       \* the latest getter call and what it returned
    prev,                      \* the getter call before that
    sound                      \* the latest invocation of a returned player

vars == <<heap, animalLists, idealCompleteAnimalLists, animalSoundPlayers,
          defaultAnimalSoundPlayer, ret, prev, sound>>

NoCall == [fn |-> "none", name |-> "none", value |-> Undefined, heapLen |-> 0]
NoSound == [name |-> "none", player |-> Undefined, animal |-> Fish,
            result |-> "none"]

\* ------------------------------------------------------------ module load
\* Evaluating an array literal of animal literals: the element objects are
\* allocated first, then the array that refers to them.  Yields the new heap;
\* the array is its last object.
AllocList(h, animals) ==
    LET withElems == h \o animals
        addrs == [i \in 1..Len(animals) |-> Len(h) + i]
    IN Append(withElems, ArrayObject(addrs))

\* An object literal's property is either omitted or given a list of animals.
Omitted == <<>>
Present(animals) == <<animals>>

\* The heap after the object literal of a list registry has been evaluated on
\* heap h, its properties in the order Cat, Fish.
HeapLists(h, entries) ==
    LET h1 == IF entries["Cat"] = Omitted THEN h
              ELSE AllocList(h, entries["Cat"][1])
        h2 == IF entries["Fish"] = Omitted THEN h1
              ELSE AllocList(h1, entries["Fish"][1])
    IN h2

\* The registry object that literal evaluates to: each property holds the
\* address of its array; reading an omitted property yields undefined.
RegLists(h, entries) ==
    LET h1 == IF entries["Cat"] = Omitted THEN h
              ELSE AllocList(h, entries["Cat"][1])
        h2 == IF entries["Fish"] = Omitted THEN h1
              ELSE AllocList(h1, entries["Fish"][1])
    IN [N \in AnimalName |->
          IF entries[N] = Omitted THEN Undefined
          ELSE IF N = "Cat" THEN Len(h1) ELSE Len(h2)]

\* const animalLists: Partial<AnimalLists> = { Cat: [ {type:'cat', ...} ] }
AnimalListsLiteral ==
    [N \in AnimalName |->
        IF N = "Cat" THEN Present(<<Cat("Did you call me?")>>) ELSE Omitted]

\* const idealCompleteAnimalLists: AnimalLists = { Cat: [...], Fish: [...] }
IdealCompleteLiteral ==
    [N \in AnimalName |->
        IF N = "Cat" THEN Present(<<Cat("Did you call me?")>>)
        ELSE Present(<<Fish>>)]

\* The state after the module has been loaded with `entries` as the literal
\* of animalLists: the three registries, the two functions.
Load(entries) ==
    LET h1 == HeapLists(<<>>, entries)
        h2 == HeapLists(h1, IdealCompleteLiteral)
        h3 == Append(h2, FunctionObject("catMeow"))
        h4 == Append(h3, FunctionObject("default"))
    IN /\ heap = h4
       /\ animalLists = RegLists(<<>>, entries)
       /\ idealCompleteAnimalLists = RegLists(h1, IdealCompleteLiteral)
       /\ animalSoundPlayers =
             [N \in AnimalName |-> IF N = "Cat" THEN Len(h3) ELSE Undefined]
       /\ defaultAnimalSoundPlayer = Len(h4)
       /\ ret = NoCall
       /\ prev = NoCall
       /\ sound = NoSound

\* The program as written.
Init == Load(AnimalListsLiteral)

\* The heap of the program as written, right after module load.
InitHeap == HeapLists(HeapLists(<<>>, AnimalListsLiteral), IdealCompleteLiteral)
              \o <<FunctionObject("catMeow"), FunctionObject("default")>>

\* Sequences over S of length at most n
SeqUpTo(S, n) == UNION {[1..k -> S] : k \in 0..n}

\* Every value of type Partial<AnimalLists> with lists of bounded length:
\* each tag is either omitted or mapped to a list of animals of its shape.
PartialAnimalLists ==
    {entries \in [AnimalName -> {Omitted} \cup
                     {Present(l) : l \in SeqUpTo(AnimalRecord("Cat") \cup
                                                 AnimalRecord("Fish"), MaxListLen)}] :
        \A N \in AnimalName :
            entries[N] # Omitted =>
                \A i \in 1..Len(entries[N][1]) :
                    entries[N][1][i] \in AnimalRecord(N)}

\* The getters over any registry of the declared type.
InitReg == \E entries \in PartialAnimalLists : Load(entries)

\* ------------------------------------------------------------- primitives
\* obj[name]: reading a property that the object lacks yields undefined.
PropertyGetOtherKey(obj, name) ==
    obj[CHOOSE N \in AnimalName : N # name]
PropertyGet(obj, name) == obj[name]

\* ToBoolean as applied by `||`: undefined is falsy, every object (arrays,
\* the empty array included, and functions) is truthy.
ToBooleanEmptyFalsy(v) ==
    /\ v # Undefined
    /\ ~(heap[v].kind = "array" /\ heap[v].elems = <<>>)
ToBoolean(v) == v # Undefined

\* l || r
LogicalAnd(l, r) == IF ToBoolean(l) THEN r ELSE l
LogicalLeft(l, r) == l
LogicalOr(l, r) == IF ToBoolean(l) THEN l ELSE r

\* What the getters write to animalLists: nothing.
AnimalListsMemoised(name, value) == [animalLists EXCEPT ![name] = value]
AnimalListsConsumed(name, value) == [animalLists EXCEPT ![name] = Undefined]
AnimalListsAfterGet(name, value) == animalLists

\* Cat: cat => cat.meow
CatPlayerType(cat) == cat.type
CatPlayer(cat) ==
    IF "meow" \in DOMAIN cat THEN cat.meow ELSE "undefined"

\* const defaultAnimalSoundPlayer = (animal: AnyAnimal) => 'I am an animal'
DefaultAnimalSoundPlayer(animal) == "I am an animal"

\* Calling a value: a function object runs its body, undefined is not callable.
Call(f, animal) ==
    IF f = Undefined THEN "TypeError"
    ELSE IF heap[f].code = "catMeow" THEN CatPlayer(animal)
    ELSE DefaultAnimalSoundPlayer(animal)

\* ---------------------------------------------------------------- actions
\* function getAnimalList<N>(name: N): AnimalList<N>
\*   const list = animalLists[name]; return list || []
\* The literal `[]` is evaluated, and a fresh array allocated, only when the
\* left operand is falsy.
GetAnimalList(name) ==
    LET list == PropertyGet(animalLists, name)
        fresh == Len(heap) + 1
        value == LogicalOr(list, fresh)
    IN /\ value = fresh => Len(heap) < MaxHeap
       /\ heap' = IF value = fresh THEN Append(heap, ArrayObject(<<>>))
                  ELSE heap
       /\ animalLists' = AnimalListsAfterGet(name, value)
       /\ prev' = ret
       /\ ret' = [fn |-> "getAnimalList", name |-> name, value |-> value,
                  heapLen |-> Len(heap)]
       /\ UNCHANGED <<idealCompleteAnimalLists, animalSoundPlayers,
                      defaultAnimalSoundPlayer, sound>>

\* function getAnimalSoundPlayer<N>(name: N): AnimalSoundPlayer<N>
\*   const player = animalSoundPlayers[name]
\*   return player || defaultAnimalSoundPlayer
GetAnimalSoundPlayer(name) ==
    LET player == PropertyGet(animalSoundPlayers, name)
        value == LogicalOr(player, defaultAnimalSoundPlayer)
    IN /\ prev' = ret
       /\ ret' = [fn |-> "getAnimalSoundPlayer", name |-> name,
                  value |-> value, heapLen |-> Len(heap)]
       /\ UNCHANGED <<heap, animalLists, idealCompleteAnimalLists,
                      animalSoundPlayers, defaultAnimalSoundPlayer, sound>>

\* Invoking the AnimalSoundPlayer<N> a getter returned, on an AnimalRecord[N].
ApplyPlayer(animal) ==
    /\ ret.fn = "getAnimalSoundPlayer"
    /\ animal \in AnimalRecord(ret.name)
    /\ sound' = [name |-> ret.name, player |-> ret.value, animal |-> animal,
                 result |-> Call(ret.value, animal)]
    /\ UNCHANGED <<heap, animalLists, idealCompleteAnimalLists,
                   animalSoundPlayers, defaultAnimalSoundPlayer, ret, prev>>

Next ==
    \/ \E name \in AnimalName : GetAnimalList(name)
    \/ \E name \in AnimalName : GetAnimalSoundPlayer(name)
    \/ \E animal \in AnimalRecord("Cat") \cup AnimalRecord("Fish") :
          ApplyPlayer(animal)

Spec == Init /\ [][Next]_vars

SpecReg == InitReg /\ [][Next]_vars

\* ------------------------------------------------------------ vocabulary
\* v is the address of a live array / function
IsArray(v) == v \in 1..Len(heap) /\ heap[v].kind = "array"
IsFunction(v) == v \in 1..Len(heap) /\ heap[v].kind = "function"

\* The animals an array holds, in order
Contents(a) == [i \in 1..Len(heap[a].elems) |-> heap[heap[a].elems[i]]]

\* An object has the shape the type system associates with tag N
HasShape(o, N) ==
    IF N = "Cat" THEN o.type = "cat" /\ "meow" \in DOMAIN o
    ELSE o.type = "fish" /\ "meow" \notin DOMAIN o

\* Two results are equal: the same function, or arrays of equal animals
EqualResults(a, b) ==
    \/ a = b
    \/ IsArray(a) /\ IsArray(b) /\ Contents(a) = Contents(b)

\* The array was created by the call recorded in r (the `[]` of the fallback)
CreatedBy(r) == r.value > r.heapLen

\* ----------------------------------------------------------------- claims
\* C1: for a tag that has an entry in the registry, the getter returns the
\* stored value itself: the same object (the address the registry holds, not
\* an array created by the call), with the contents it had at module load,
\* and for players never the default handler.
C1_ReturnsStoredEntry ==
    /\ (ret.fn = "getAnimalList" /\ animalLists[ret.name] # Undefined) =>
          /\ ret.value = animalLists[ret.name]
          /\ ~CreatedBy(ret)
          /\ heap[ret.value] = InitHeap[ret.value]
          /\ Contents(ret.value) = [i \in 1..Len(InitHeap[ret.value].elems) |->
                                       InitHeap[InitHeap[ret.value].elems[i]]]
    /\ (ret.fn = "getAnimalSoundPlayer"
          /\ animalSoundPlayers[ret.name] # Undefined) =>
          /\ ret.value = animalSoundPlayers[ret.name]
          /\ ret.value # defaultAnimalSoundPlayer
          /\ heap[ret.value] = InitHeap[ret.value]

C1_Witness ==
    /\ ret.fn = "getAnimalList" /\ ret.name = "Cat"
    /\ ret.value = animalLists["Cat"]
    /\ prev.fn = "getAnimalSoundPlayer" /\ prev.name = "Cat"
    /\ prev.value = animalSoundPlayers["Cat"]

\* C2: for a tag that has no entry in the registry, getAnimalList returns an
\* empty list and getAnimalSoundPlayer returns defaultAnimalSoundPlayer.
C2_AbsentReturnsFallback ==
    /\ (ret.fn = "getAnimalList" /\ animalLists[ret.name] = Undefined) =>
          IsArray(ret.value) /\ heap[ret.value].elems = <<>>
    /\ (ret.fn = "getAnimalSoundPlayer"
          /\ animalSoundPlayers[ret.name] = Undefined) =>
          ret.value = defaultAnimalSoundPlayer

C2_Witness ==
    /\ ret.fn = "getAnimalSoundPlayer" /\ ret.name = "Fish"
    /\ ret.value = defaultAnimalSoundPlayer
    /\ prev.fn = "getAnimalList" /\ prev.name = "Fish"
    /\ IsArray(prev.value) /\ heap[prev.value].elems = <<>>

\* C3: every element of the list getAnimalList(t) returns has the shape of
\* tag t, whether the list is a registry entry or the fallback.
C3_ElementsHaveTagShape ==
    ret.fn = "getAnimalList" =>
        /\ IsArray(ret.value)
        /\ \A i \in 1..Len(heap[ret.value].elems) :
              HasShape(heap[heap[ret.value].elems[i]], ret.name)

C3_Witness ==
    /\ ret.fn = "getAnimalList" /\ ret.name = "Cat"
    /\ IsArray(ret.value) /\ Len(heap[ret.value].elems) = 1
    /\ HasShape(heap[heap[ret.value].elems[1]], "Cat")
    /\ prev.fn = "getAnimalList" /\ prev.name = "Fish" /\ CreatedBy(prev)

\* C4: every getter call returns a value: never undefined, always a live
\* object of the kind the getter promises (an array, a function); invoking a
\* returned player never fails for want of a function.
C4_AlwaysReturnsValue ==
    /\ ret.fn = "getAnimalList" => ret.value # Undefined /\ IsArray(ret.value)
    /\ ret.fn = "getAnimalSoundPlayer" =>
          ret.value # Undefined /\ IsFunction(ret.value)
    /\ sound.result # "TypeError"

C4_Witness ==
    /\ ret.fn = "getAnimalList" /\ ret.name = "Fish" /\ IsArray(ret.value)
    /\ prev.fn = "getAnimalSoundPlayer" /\ prev.name = "Fish"
    /\ IsFunction(prev.value)
    /\ sound.name = "Fish" /\ sound.result # "none"

\* C5: two consecutive calls of the same getter for the same tag yield equal
\* results, for present and for absent tags.
C5_Idempotent ==
    (ret.fn # "none" /\ prev.fn = ret.fn /\ prev.name = ret.name) =>
        EqualResults(prev.value, ret.value)

C5_Witness ==
    /\ ret.fn = "getAnimalList" /\ prev.fn = "getAnimalList"
    /\ ret.name = "Fish" /\ prev.name = "Fish"
    /\ ret.value # prev.value
    /\ EqualResults(prev.value, ret.value)

\* C6: no step changes the registries, the default handler, or any object
\* that already exists; in particular looking up an absent tag does not give
\* the registry an entry for it.
C6_NoSideEffects ==
    [][/\ animalLists' = animalLists
       /\ animalSoundPlayers' = animalSoundPlayers
       /\ idealCompleteAnimalLists' = idealCompleteAnimalLists
       /\ defaultAnimalSoundPlayer' = defaultAnimalSoundPlayer
       /\ Len(heap') >= Len(heap)
       /\ \A a \in 1..Len(heap) : heap'[a] = heap[a]]_vars

C6_Witness ==
    /\ ret.fn = "getAnimalList" /\ ret.name = "Fish" /\ CreatedBy(ret)
    /\ animalLists["Fish"] = Undefined
    /\ prev.fn = "getAnimalSoundPlayer" /\ prev.name = "Fish"
    /\ animalSoundPlayers["Fish"] = Undefined

\* C7: over a fully populated list registry the fallback is never taken (no
\* call creates an array, every call returns the stored entry); and a
\* populated tag yields its stored entry whether or not the other tags of the
\* registry are populated.
FullyPopulated == \A N \in AnimalName : animalLists[N] # Undefined

C7_FullRegistryNeverFallsBack ==
    ret.fn = "getAnimalList" =>
        /\ FullyPopulated =>
              /\ ~CreatedBy(ret)
              /\ ret.value = animalLists[ret.name]
              /\ Len(heap) = ret.heapLen
        /\ animalLists[ret.name] # Undefined =>
              ret.value = animalLists[ret.name]

C7_Witness ==
    /\ FullyPopulated
    /\ ret.fn = "getAnimalList" /\ ret.name = "Fish"
    /\ ret.value = animalLists["Fish"]
    /\ prev.fn = "getAnimalList" /\ prev.name = "Cat"
    /\ prev.value = animalLists["Cat"]

\* C8 (scenario A): with the registry of the source, getAnimalList(Cat)
\* returns [{type:'cat', meow:'Did you call me?'}] and getAnimalList(Fish)
\* returns the empty list.
C8_ScenarioA ==
    ret.fn = "getAnimalList" =>
        /\ IsArray(ret.value)
        /\ ret.name = "Cat" =>
              Contents(ret.value) = <<Cat("Did you call me?")>>
        /\ ret.name = "Fish" => Contents(ret.value) = <<>>

C8_Witness ==
    /\ ret.fn = "getAnimalList" /\ ret.name = "Fish"
    /\ Contents(ret.value) = <<>>
    /\ prev.fn = "getAnimalList" /\ prev.name = "Cat"
    /\ Contents(prev.value) = <<Cat("Did you call me?")>>

\* C9 (scenario B): the player returned for Cat, applied to a cat, returns
\* that cat's meow; the player returned for Fish, applied to the fish,
\* returns 'I am an animal'.
C9_ScenarioB ==
    /\ sound.name = "Cat" => sound.result = sound.animal.meow
    /\ sound.name = "Fish" => sound.result = "I am an animal"

C9_Witness ==
    /\ sound.name = "Cat" /\ sound.animal = Cat("hi") /\ sound.result = "hi"
    /\ ret.fn = "getAnimalSoundPlayer" /\ ret.name = "Cat"

\* C10: an entry whose value is the empty list counts as present:
\* getAnimalList returns that stored list itself, and creates a fallback
\* list only when the registry has no entry for the tag.
C10_EmptyListIsPresent ==
    ret.fn = "getAnimalList" =>
        /\ (animalLists[ret.name] # Undefined
              /\ heap[animalLists[ret.name]].elems = <<>>) =>
              ret.value = animalLists[ret.name] /\ ~CreatedBy(ret)
        /\ CreatedBy(ret) => animalLists[ret.name] = Undefined

C10_Witness ==
    /\ ret.fn = "getAnimalList"
    /\ animalLists[ret.name] # Undefined
    /\ heap[animalLists[ret.name]].elems = <<>>
    /\ ret.value = animalLists[ret.name]

====
